---- MODULE Spec2Model ----
(***************************************************************************)
(* Model of blackroad-automation-hub (src/automation_hub.py): the rule     *)
(* store, the condition matcher, the action executor and the dispatch loop *)
(* of AutomationHub.run_rule_engine, run by concurrent caller threads.     *)
(*                                                                         *)
(* Python strings are sequences of one-character strings, so that          *)
(* str.split, substring tests and string ordering are computed.  A Python  *)
(* value is a record [t |-> tag, v |-> payload] with tag one of            *)
(* "none", "int", "str", "list", "tuple", "dict"; a dict payload is a      *)
(* function from keys (strings) to values.  Names that the code only       *)
(* compares for equality (rule names, type tags, operator symbols, keys of *)
(* parameter mappings) are plain strings.  A timestamp is the reading of a *)
(* logical clock: isoformat strings order as the instants they denote.     *)
(***************************************************************************)
EXTENDS Integers, Sequences, FiniteSets, TLC

(***************************************************************************)
(* Bounds of the model.                                                    *)
(***************************************************************************)
MaxCalls == 4       \* calls made to the hub: rule management and passes
MaxConds == 2       \* conditions of a rule handed to evaluate_rule directly

Threads == {1, 2}   \* caller threads that invoke run_rule_engine

(***************************************************************************)
(* Python values.                                                          *)
(***************************************************************************)
None      == [t |-> "none", v |-> 0]
PyInt(n)  == [t |-> "int", v |-> n]
PyStr(s)  == [t |-> "str", v |-> s]
PyList(s) == [t |-> "list", v |-> s]
PyTuple(s) == [t |-> "tuple", v |-> s]
PyDict(f) == [t |-> "dict", v |-> f]
EmptyDict == PyDict(<<>>)

\* The characters that occur in the model, in code-point order.
Alphabet == <<".", "1", "2", "_", "a", "b", "c", "d", "e", "f", "g", "h", "i", "k", "l",
              "m", "n", "o", "p", "r", "s", "t", "u", "v", "y">>

Ord(c) == CHOOSE i \in 1..Len(Alphabet) : Alphabet[i] = c

\* a == b on Python values (values of different types are unequal).
PyEq(a, b) == a.t = b.t /\ a.v = b.v

IsSeqTag(t) == t \in {"list", "tuple"}

\* a < b on two sequences of characters (str.__lt__).
RECURSIVE StrLess(_, _)
StrLess(a, b) ==
    IF a = <<>> THEN b # <<>>
    ELSE IF b = <<>> THEN FALSE
    ELSE IF Head(a) = Head(b) THEN StrLess(Tail(a), Tail(b))
    ELSE Ord(Head(a)) < Ord(Head(b))

\* Result of an operator call: a boolean, or the exception it raises.
Ret(b)   == [exc |-> "none", val |-> b]
Raise(e) == [exc |-> e, val |-> FALSE]

\* a < b on Python values; TypeError on operands that are not ordered.
RECURSIVE PyLess(_, _)
PyLess(a, b) ==
    IF a.t = "int" /\ b.t = "int" THEN Ret(a.v < b.v)
    ELSE IF a.t = "str" /\ b.t = "str" THEN Ret(StrLess(a.v, b.v))
    ELSE IF IsSeqTag(a.t) /\ a.t = b.t THEN
        IF a.v = <<>> THEN Ret(b.v # <<>>)
        ELSE IF b.v = <<>> THEN Ret(FALSE)
        ELSE IF PyEq(Head(a.v), Head(b.v))
             THEN PyLess([a EXCEPT !.v = Tail(@)], [b EXCEPT !.v = Tail(@)])
             ELSE PyLess(Head(a.v), Head(b.v))
    ELSE Raise("TypeError")

\* a <= b: for ordered operands, a < b or a == b.
PyLessEq(a, b) ==
    LET lt == PyLess(a, b)
    IN  IF lt.exc # "none" THEN lt ELSE Ret(lt.val \/ PyEq(a, b))

\* hash(a) succeeds: lists and dicts are unhashable, a tuple is hashable
\* when its elements are.
RECURSIVE Hashable(_)
Hashable(a) ==
    CASE a.t \in {"list", "dict"} -> FALSE
      [] a.t = "tuple" -> \A i \in 1..Len(a.v) : Hashable(a.v[i])
      [] OTHER -> TRUE

\* s occurs in t as a contiguous substring.
IsSubstring(s, t) ==
    \E i \in 0..Len(t) :
        /\ i + Len(s) <= Len(t)
        /\ \A k \in 1..Len(s) : t[i + k] = s[k]

\* a in b (the container decides: sequence membership, substring, dict key).
PyIn(a, b) ==
    CASE IsSeqTag(b.t) -> Ret(\E i \in 1..Len(b.v) : PyEq(b.v[i], a))
      [] b.t = "str"  -> IF a.t = "str" THEN Ret(IsSubstring(a.v, b.v))
                         ELSE Raise("TypeError")
      [] b.t = "dict" -> IF ~Hashable(a) THEN Raise("TypeError")
                         ELSE Ret(a.t = "str" /\ a.v \in DOMAIN b.v)
      [] OTHER -> Raise("TypeError")

(***************************************************************************)
(* _OP_MAP: the operator table.  OpKnown is the key test of               *)
(* _OP_MAP.get(op); OP_MAP applies the function stored under op.           *)
(***************************************************************************)
OpKnown(op) == op \in {"==", "!=", ">", ">=", "<", "<=", "in", "contains"}

OP_MAP(op, a, b) ==
    CASE op = "==" -> Ret(PyEq(a, b))
      [] op = "!=" -> Ret(~PyEq(a, b))
      [] op = ">"  -> PyLess(b, a)
      [] op = ">=" -> PyLessEq(b, a)
      [] op = "<"  -> PyLess(a, b)
      [] op = "<=" -> PyLessEq(a, b)
      [] op = "in" -> PyIn(a, b)
      [] op = "contains" -> PyIn(b, a)

(***************************************************************************)
(* _resolve_path.                                                          *)
(***************************************************************************)
\* path.split("."): the pieces between the dots ("" splits to [""]).
RECURSIVE SplitAcc(_, _, _)
SplitAcc(s, cur, acc) ==
    IF s = <<>> THEN Append(acc, cur)
    ELSE IF Head(s) = "." THEN SplitAcc(Tail(s), <<>>, Append(acc, cur))
    ELSE SplitAcc(Tail(s), Append(cur, Head(s)), acc)

Split(path) == SplitAcc(path, <<>>, <<>>)

\* dict.get(key): the value under key, None when the key is absent.
DictGet(d, key) == IF key \in DOMAIN d.v THEN d.v[key] ELSE None

RECURSIVE Walk(_, _)
Walk(parts, val) ==
    IF parts = <<>> THEN val
    ELSE IF val.t = "dict" THEN Walk(Tail(parts), DictGet(val, Head(parts)))
    ELSE None

resolve_path(path, context) == Walk(Split(path), context)

(***************************************************************************)
(* Condition.evaluate and AutomationHub.evaluate_rule.                      *)
(***************************************************************************)
\* Condition.evaluate with the operator looked up before the field: an
\* unknown operator raises whether or not the field is there.
evaluateOpFirst(cond, context) ==
    LET actual == resolve_path(cond.field, context)
    IN  IF ~OpKnown(cond.op) THEN Raise("ValueError")
        ELSE IF actual.t = "none" THEN Ret(cond.negate)
        ELSE LET result == OP_MAP(cond.op, actual, cond.value)
             IN  IF result.exc # "none" THEN result
                 ELSE Ret(IF cond.negate THEN ~result.val ELSE result.val)

\* Condition.evaluate(context): a boolean, or the exception raised.
evaluate(cond, context) ==
    LET actual == resolve_path(cond.field, context)
    IN  IF actual.t = "none" THEN Ret(cond.negate)
        ELSE IF ~OpKnown(cond.op) THEN Raise("ValueError")
        ELSE LET result == OP_MAP(cond.op, actual, cond.value)
             IN  IF result.exc # "none" THEN result
                 ELSE Ret(IF cond.negate THEN ~result.val ELSE result.val)

\* The description evaluate_rule appends for a condition, <<>> for none:
\* "<field> <op> <value>" when it is false, "error: <e>" when it raises.
Describe(cond, context) ==
    LET r == evaluate(cond, context)
    IN  IF r.exc # "none" THEN <<[kind |-> "error", exc |-> r.exc]>>
        ELSE IF ~r.val THEN <<[kind |-> "failed", field |-> cond.field,
                               op |-> cond.op, value |-> cond.value]>>
        ELSE <<>>

\* The loop of evaluate_rule leaving at the first condition that fails.
FailedFromFirst(conds, context, i) ==
    IF \E k \in i..Len(conds) : Describe(conds[k], context) # <<>>
    THEN Describe(conds[CHOOSE k \in i..Len(conds) :
                      /\ Describe(conds[k], context) # <<>>
                      /\ \A x \in i..(k - 1) : Describe(conds[x], context) = <<>>],
                  context)
    ELSE <<>>

RECURSIVE FailedFrom(_, _, _)
FailedFrom(conds, context, i) ==
    IF i > Len(conds) THEN <<>>
    ELSE Describe(conds[i], context) \o FailedFrom(conds, context, i + 1)

\* evaluate_rule(rule, context) = (len(failed) == 0, failed)
evaluate_rule(rule, context) ==
    LET failed == FailedFrom(rule.conditions, context, 1)
    IN  [ok |-> (Len(failed) = 0), failed |-> failed]


(***************************************************************************)
(* Rule definitions: Rule.to_dict, json.dumps / json.loads, Rule.from_dict. *)
(* A Rule is a record with the fields of the dataclass; the document        *)
(* stored in the definition column is the record json.loads gives back.     *)
(***************************************************************************)
NULL == 0           \* SQL NULL / Python None in a timestamp column

\* json.loads(json.dumps(v)): a tuple is written as an array and read back
\* as a list; the other values of the model come back unchanged.
RECURSIVE Json(_)
Json(val) ==
    CASE IsSeqTag(val.t) -> PyList([i \in 1..Len(val.v) |-> Json(val.v[i])])
      [] val.t = "dict" -> PyDict([k \in DOMAIN val.v |-> Json(val.v[k])])
      [] OTHER -> val

\* The same for a mapping with plain keys (trigger config, action params).
JsonMap(m) == [k \in DOMAIN m |-> Json(m[k])]

\* json.loads(json.dumps(rule.to_dict()))
to_json(rule) ==
    [rule EXCEPT
        !.trigger.config = JsonMap(@),
        !.conditions = [i \in 1..Len(@) |-> [@[i] EXCEPT !.value = Json(@)]],
        !.actions = [i \in 1..Len(@) |-> [@[i] EXCEPT !.params = JsonMap(@)]]]

\* d.get(key, default) on a document
Get(d, key, default) == IF key \in DOMAIN d THEN d[key] ELSE default

NoTarget == "None"  \* Action.target = None

\* Rule.from_dict(d); now is the reading of datetime.utcnow()
from_dict(d, now) ==
    [name |-> d.name,
     trigger |-> [type |-> d.trigger.type,
                  config |-> Get(d.trigger, "config", <<>>)],
     conditions |-> LET cs == Get(d, "conditions", <<>>)
                    IN  [i \in 1..Len(cs) |->
                            [field |-> cs[i].field, op |-> cs[i].op,
                             value |-> cs[i].value,
                             negate |-> Get(cs[i], "negate", FALSE)]],
     actions |-> LET as == Get(d, "actions", <<>>)
                 IN  [i \in 1..Len(as) |->
                         [type |-> as[i].type,
                          target |-> Get(as[i], "target", NoTarget),
                          params |-> Get(as[i], "params", <<>>)]],
     enabled |-> Get(d, "enabled", TRUE),
     priority |-> Get(d, "priority", 0),
     description |-> Get(d, "description", ""),
     created_at |-> Get(d, "created_at", now),
     last_triggered |-> Get(d, "last_triggered", NULL),
     trigger_count |-> Get(d, "trigger_count", 0)]

(***************************************************************************)
(* The rules table: a sequence of rows in rowid order.                     *)
(***************************************************************************)
\* The row add_rule writes for a rule.
Row(rule) ==
    [name |-> rule.name, definition |-> to_json(rule),
     enabled |-> IF rule.enabled THEN 1 ELSE 0, priority |-> rule.priority,
     created_at |-> rule.created_at, last_triggered |-> rule.last_triggered,
     trigger_count |-> rule.trigger_count]

\* The Rule that get_rule and get_active_rules build from a row.
FromRow(row) ==
    [from_dict(row.definition, NULL) EXCEPT
        !.enabled = (row.enabled # 0),
        !.last_triggered = row.last_triggered,
        !.trigger_count = row.trigger_count]

RowsNamed(tbl, name) == {k \in 1..Len(tbl) : tbl[k].name = name}

\* INSERT OR IGNORE INTO rules: a row of the same name stays as it is.
InsertOrIgnore(tbl, row) ==
    IF RowsNamed(tbl, row.name) # {} THEN tbl ELSE Append(tbl, row)

\* INSERT OR REPLACE INTO rules: the row of the same name is removed, the
\* new row is inserted with a fresh rowid.
InsertOrReplace(tbl, row) ==
    Append(SelectSeq(tbl, LAMBDA r : r.name # row.name), row)

\* The flag set by writing the rule back from its definition, which
\* carries the counters the rule was added with.
SetEnabledRewrite(tbl, name, flag) ==
    [k \in 1..Len(tbl) |->
        IF tbl[k].name = name
        THEN [Row(from_dict(tbl[k].definition, NULL)) EXCEPT !.enabled = flag]
        ELSE tbl[k]]

\* UPDATE rules SET enabled=? WHERE name=?
SetEnabled(tbl, name, flag) ==
    [k \in 1..Len(tbl) |->
        IF tbl[k].name = name THEN [tbl[k] EXCEPT !.enabled = flag] ELSE tbl[k]]

\* DELETE FROM rules WHERE name=?
DeleteFrom(tbl, name) == SelectSeq(tbl, LAMBDA r : r.name # name)

\* The UPDATE without its WHERE clause: every row is counted.
increment_triggerAll(tbl, rule_name, now) ==
    [k \in 1..Len(tbl) |->
        [tbl[k] EXCEPT !.trigger_count = @ + 1, !.last_triggered = now]]

\* UPDATE rules SET trigger_count=trigger_count+1, last_triggered=? WHERE name=?
increment_trigger(tbl, rule_name, now) ==
    [k \in 1..Len(tbl) |->
        IF tbl[k].name = rule_name
        THEN [tbl[k] EXCEPT !.trigger_count = @ + 1, !.last_triggered = now]
        ELSE tbl[k]]

\* get_rule(name): the set holding the rule, empty when there is none.
get_rule(tbl, name) == {FromRow(tbl[k]) : k \in RowsNamed(tbl, name)}

\* The same statement with ORDER BY priority (ascending).
ActiveOrdersAsc(tbl) ==
    LET on == {k \in 1..Len(tbl) : tbl[k].enabled = 1}
        n  == Cardinality(on)
    IN  {s \in [1..n -> on] :
            /\ \A a, b \in 1..n : a # b => s[a] # s[b]
            /\ \A a, b \in 1..n : a < b => tbl[s[a]].priority <= tbl[s[b]].priority}

\* SELECT * FROM rules WHERE enabled=1 ORDER BY priority DESC: the orders
\* the statement may return the enabled rows in (rows of equal priority
\* come in an order SQL leaves open).
ActiveOrders(tbl) ==
    LET on == {k \in 1..Len(tbl) : tbl[k].enabled = 1}
        n  == Cardinality(on)
    IN  {s \in [1..n -> on] :
            /\ \A a, b \in 1..n : a # b => s[a] # s[b]
            /\ \A a, b \in 1..n : a < b => tbl[s[a]].priority >= tbl[s[b]].priority}

\* get_active_rules(), for one of those orders
get_active_rules(tbl, s) == [a \in 1..Len(s) |-> FromRow(tbl[s[a]])]

\* if trigger_type: (None and "" are false)
Truthy(str) == str \notin {"None", ""}

\* The list left unfiltered.
SelectAll(rs, trigger_type) == rs

\* if trigger_type: rules = [r for r in rules if r.trigger.type == trigger_type]
Select(rs, trigger_type) ==
    IF Truthy(trigger_type)
    THEN SelectSeq(rs, LAMBDA r : r.trigger.type = trigger_type)
    ELSE rs

(***************************************************************************)
(* AutomationHub.execute_action: what an action returns or raises.  A      *)
(* registered handler is the caller's code: it returns or it raises.       *)
(***************************************************************************)
Returns(res) == [exc |-> "None", res |-> res]
Raises(msg)  == [exc |-> msg, res |-> <<>>]

ActionTypes == {"set_state", "call_service", "send_notify", "log_message",
                "run_scene", "delay"}

\* secs = action.params.get("seconds", 1)
DelaySecs(action) == Get(action.params, "seconds", PyInt(1))

\* time.sleep(secs) rejects a value that is no number or is negative.
SleepError(secs) ==
    IF secs.t # "int" THEN "TypeError"
    ELSE IF secs.v < 0 THEN "sleep length must be non-negative"
    ELSE "None"

\* execute_action raising for a service that has no handler.
execute_actionStrict(action, handlers) ==
    IF action.type = "call_service" /\ action.target \notin DOMAIN handlers
    THEN Raises("No handler for service")
    ELSE IF action.type \notin ActionTypes THEN Raises("Unknown action type")
    ELSE IF action.type = "call_service"
    THEN IF handlers[action.target] = "raises"
         THEN Raises("handler failed")
         ELSE Returns([service |-> action.target, status |-> "handled"])
    ELSE IF action.type = "log_message"
    THEN Returns([logged |-> Get(action.params, "message", PyStr(<<>>))])
    ELSE IF action.type = "set_state"
    THEN Returns([entity_id |-> action.target,
                  state |-> Get(action.params, "state", None)])
    ELSE IF action.type = "delay"
    THEN Returns([delayed |-> DelaySecs(action)])
    ELSE Returns([done |-> action.type])

execute_action(action, handlers) ==
    CASE action.type = "log_message" ->
            Returns([logged |-> Get(action.params, "message", PyStr(<<>>))])
      [] action.type = "send_notify" ->
            Returns([channel |-> Get(action.params, "channel",
                                     PyStr(<<"d", "e", "f", "a", "u", "l", "t">>)),
                     message |-> Get(action.params, "message", PyStr(<<>>))])
      [] action.type = "set_state" ->
            Returns([entity_id |-> action.target,
                     state |-> Get(action.params, "state", None)])
      [] action.type = "call_service" ->
            IF action.target \in DOMAIN handlers
            THEN IF handlers[action.target] = "raises"
                 THEN Raises("handler failed")
                 ELSE Returns([service |-> action.target, status |-> "handled"])
            ELSE Returns([service |-> action.target, status |-> "no_handler"])
      [] action.type = "delay" ->
            IF SleepError(DelaySecs(action)) # "None"
            THEN Raises(SleepError(DelaySecs(action)))
            ELSE Returns([delayed |-> DelaySecs(action)])
      [] action.type = "run_scene" ->
            Returns([scene |-> Get(action.params, "scene_name", None)])
      [] OTHER -> Raises("Unknown action type")

(***************************************************************************)
(* Inputs: the rules the callers add and the calls they make.              *)
(***************************************************************************)
kSensor == <<"s", "e", "n", "s", "o", "r">>
kEvent  == <<"e", "v", "e", "n", "t">>
kName   == <<"n", "a", "m", "e">>
kData   == <<"d", "a", "t", "a">>
kValue  == <<"v", "a", "l", "u", "e">>
kUnit   == <<"u", "n", "i", "t">>
kTs     == <<"t", "s">>
kSensorId == <<"s", "e", "n", "s", "o", "r", "_", "i", "d">>
kCredentials == <<"c", "r", "e", "d", "e", "n", "t", "i", "a", "l", "s">>
kT1     == <<"t", "1">>
sSensorUpdate == <<"s", "e", "n", "s", "o", "r", "_", "u", "p", "d", "a", "t", "e">>
sMotion == <<"m", "o", "t", "i", "o", "n">>
sHot    == <<"h", "o", "t">>
sOn     == <<"o", "n">>
fT1Value == kSensor \o <<".">> \o kT1 \o <<".">> \o kValue

\* Rule(name="temp_alert", ...) as the caller constructs it at time now:
\* passes on a reading above 30; logs, calls service "svc", sets a state.
TempAlert(now) ==
    [name |-> "temp_alert",
     trigger |-> [type |-> "sensor",
                  config |-> [sensor_id |-> PyStr(kT1),
                              range |-> PyTuple(<<PyInt(0), PyInt(50)>>)]],
     conditions |-> <<[field |-> fT1Value, op |-> ">", value |-> PyInt(30),
                       negate |-> FALSE]>>,
     actions |-> <<[type |-> "log_message", target |-> NoTarget,
                    params |-> [message |-> PyStr(sHot)]],
                   [type |-> "call_service", target |-> "svc", params |-> <<>>],
                   [type |-> "set_state", target |-> "light",
                    params |-> [state |-> PyStr(sOn)]]>>,
     enabled |-> TRUE, priority |-> 5, description |-> "",
     created_at |-> now, last_triggered |-> NULL, trigger_count |-> 0]

\* A second rule under the same name, triggered by events: an operator that
\* _OP_MAP lacks on a negated condition (so the rule passes when the sensor
\* is missing), and an action type that execute_action lacks.
TempAlertV2(now) ==
    [name |-> "temp_alert",
     trigger |-> [type |-> "event", config |-> <<>>],
     conditions |-> <<[field |-> fT1Value, op |-> "~=", value |-> PyInt(30),
                       negate |-> TRUE]>>,
     actions |-> <<[type |-> "reboot", target |-> NoTarget, params |-> <<>>],
                   [type |-> "send_notify", target |-> NoTarget, params |-> <<>>]>>,
     enabled |-> TRUE, priority |-> 0, description |-> "v2",
     created_at |-> now, last_triggered |-> NULL, trigger_count |-> 0]

RuleInputs(now) == {TempAlert(now), TempAlertV2(now)}

\* A rule document for add_rule_from_json, optional fields left out.
MotionOnDoc ==
    [name |-> "motion_on",
     trigger |-> [type |-> "event", config |-> [event_name |-> PyStr(sMotion)]],
     actions |-> <<[type |-> "delay", params |-> [seconds |-> PyInt(0)]]>>]

JsonInputs == {MotionOnDoc}

RuleNames == {"temp_alert", "motion_on"}

\* register_service(name, handler): the handler returns or raises.
ServiceNames == {"svc"}
HandlerKinds == {"returns", "raises"}

\* process_sensor_update(sensor_id, value, unit) builds this context.
SensorContext(sensor_id, value, unit, now) ==
    PyDict((kSensor :> PyDict(sensor_id :> PyDict((kValue :> value) @@ (kUnit :> unit))))
        @@ (kEvent :> PyDict((kName :> PyStr(sSensorUpdate))
                             @@ (kSensorId :> PyStr(sensor_id))
                             @@ (kValue :> value)))
        @@ (kTs :> PyInt(now)))

\* fire_event(event_name, event_data) builds this context.
EventContext(event_name, event_data, now) ==
    PyDict((kEvent :> PyDict((kName :> PyStr(event_name)) @@ (kData :> event_data)))
        @@ (kTs :> PyInt(now)))

SensorReadings == {PyInt(20), PyInt(35)}

\* Contexts handed to run_rule_engine directly, with no trigger type.
ManualContexts ==
    {PyDict((kSensor :> PyDict(kT1 :> PyDict(kValue :> PyInt(35))))
         @@ (kCredentials :> PyStr(<<"k", "e", "y">>)))}

(***************************************************************************)
(* State.  Every statement that writes a table runs under _LOCK in its own *)
(* transaction, so each is one atomic step.                                *)
(***************************************************************************)
VARIABLES
    rules,              \* the rules table
    executions,         \* the executions table, in id order
    logs,               \* the logs table, in id order
    service_handlers,   \* self._service_handlers: service name -> handler
    clock,              \* the reading datetime.utcnow() gives
    th,                 \* per thread: its position in run_rule_engine and locals
    last_call,          \* the latest rule-management call, its argument, and
                        \* the call before it
    ncalls,             \* number of calls made to the hub so far
    direct              \* a call a test makes on Condition.evaluate or
                        \* evaluate_rule itself: its arguments and result

vars == <<rules, executions, logs, service_handlers, clock, th,
          last_call, ncalls, direct>>

\* The record of a management call: what was called with which argument,
\* and the same for the call before it.
Made(op, name, rule, prev) ==
    [op |-> op, name |-> name, rule |-> rule,
     prev |-> [op |-> prev.op, name |-> prev.name]]

\* A thread outside run_rule_engine.  lock: the thread holds _LOCK; wait:
\* the thread is inside time.sleep or inside a service handler, which it
\* entered when wait_from calls had been made to the hub.
Idle ==
    [pc |-> "idle", entry |-> "", context |-> None, trigger_type |-> "None",
     rules |-> <<>>, i |-> 0, j |-> 0, action_results |-> <<>>,
     status |-> "", error_msg |-> "None", results |-> <<>>, calls |-> <<>>,
     lock |-> FALSE, wait |-> FALSE, wait_from |-> 0]

\* No direct call is being made.
NoDirect == [fn |-> "", pc |-> "", arg |-> <<>>, context |-> None, out |-> <<>>]

\* After AutomationHub(db_path) on a fresh database: init_db has created
\* empty tables, no handler is registered.
Init ==
    /\ rules = <<>>
    /\ executions = <<>>
    /\ logs = <<>>
    /\ service_handlers = <<>>
    /\ clock = 1
    /\ th = [p \in Threads |-> Idle]
    /\ last_call = Made("init", "", <<>>, [op |-> "", name |-> ""])
    /\ ncalls = 0
    /\ direct = NoDirect

(***************************************************************************)
(* Rule management.                                                        *)
(***************************************************************************)
LogRow(level, message, context, ts) ==
    [level |-> level, message |-> message, context |-> context, ts |-> ts]

Called == /\ ncalls < MaxCalls
          /\ ncalls' = ncalls + 1

\* add_rule(rule): the row is written, then the log line.
add_rule(rule) ==
    /\ Called
    /\ rules' = InsertOrReplace(rules, Row(rule))
    /\ logs' = Append(logs, LogRow("INFO", <<"Rule added", rule.name>>,
                                   EmptyDict, clock))
    /\ clock' = clock + 1
    /\ last_call' = Made("add_rule", rule.name, rule, last_call)
    /\ UNCHANGED <<direct, executions, service_handlers, th>>

AddRule == \E rule \in RuleInputs(clock) : add_rule(rule)

add_rule_from_json == \E d \in JsonInputs : add_rule(from_dict(d, clock))

enable_rule ==
    \E name \in RuleNames :
        /\ Called
        /\ rules' = SetEnabled(rules, name, 1)
        /\ last_call' = Made("enable_rule", name, <<>>, last_call)
        /\ UNCHANGED <<direct, executions, logs, service_handlers, clock, th>>

disable_rule ==
    \E name \in RuleNames :
        /\ Called
        /\ rules' = SetEnabled(rules, name, 0)
        /\ last_call' = Made("disable_rule", name, <<>>, last_call)
        /\ UNCHANGED <<direct, executions, logs, service_handlers, clock, th>>

\* delete_rule taking the rule's execution records with it.
delete_ruleCascade ==
    \E name \in RuleNames :
        /\ Called
        /\ rules' = DeleteFrom(rules, name)
        /\ executions' = SelectSeq(executions, LAMBDA r : r.rule_name # name)
        /\ last_call' = Made("delete_rule", name, <<>>, last_call)
        /\ UNCHANGED <<direct, logs, service_handlers, clock, th>>

delete_rule ==
    \E name \in RuleNames :
        /\ Called
        /\ rules' = DeleteFrom(rules, name)
        /\ last_call' = Made("delete_rule", name, <<>>, last_call)
        /\ UNCHANGED <<direct, executions, logs, service_handlers, clock, th>>

register_service ==
    \E name \in ServiceNames, handler \in HandlerKinds :
        /\ Called
        /\ service_handlers' =
              [s \in DOMAIN service_handlers \cup {name} |->
                  IF s = name THEN handler ELSE service_handlers[s]]
        /\ last_call' = Made("register_service", name, <<>>, last_call)
        /\ UNCHANGED <<direct, rules, executions, logs, clock, th>>

(***************************************************************************)
(* run_rule_engine, one step at a time for the calling thread p.           *)
(***************************************************************************)
Call(op, rule, j) == [op |-> op, rule |-> rule, j |-> j]

\* Move on to the next rule of the pass, or to "return results".
NextRule(t) ==
    IF t.i < Len(t.rules)
    THEN [t EXCEPT !.pc = "eval", !.i = @ + 1, !.j = 0, !.action_results = <<>>,
                   !.status = "", !.error_msg = "None", !.lock = FALSE]
    ELSE [t EXCEPT !.pc = "done", !.i = 0, !.j = 0, !.action_results = <<>>,
                   !.status = "", !.error_msg = "None", !.lock = FALSE]

\* The rule's trigger config names the event fired or the sensor updated.
ConfigMatches(rule, entry, context) ==
    /\ entry = "fire_event" =>
          Get(rule.trigger.config, "event_name", None) = context.v[kEvent].v[kName]
    /\ entry = "process_sensor_update" =>
          Get(rule.trigger.config, "sensor_id", None)
              = context.v[kEvent].v[kSensorId]

\* The load with the rules also filtered by their trigger config.
EnterByConfig(p, entry, context, trigger_type) ==
    /\ th[p].pc = "idle"
    /\ Called
    /\ \E s \in ActiveOrders(rules) :
          LET sel == SelectSeq(Select(get_active_rules(rules, s), trigger_type),
                               LAMBDA r : ConfigMatches(r, entry, context))
              t   == [Idle EXCEPT !.entry = entry, !.context = context,
                                  !.trigger_type = trigger_type, !.rules = sel]
          IN  th' = [th EXCEPT ![p] = NextRule(t)]
    /\ UNCHANGED <<direct, rules, executions, logs, service_handlers, clock,
                   last_call>>

\* run_rule_engine(context, trigger_type), up to the start of the loop:
\* the active rules are loaded in one SELECT and filtered by trigger type.
Enter(p, entry, context, trigger_type) ==
    /\ th[p].pc = "idle"
    /\ Called
    /\ \E s \in ActiveOrders(rules) :
          LET sel == Select(get_active_rules(rules, s), trigger_type)
              t   == [Idle EXCEPT !.entry = entry, !.context = context,
                                  !.trigger_type = trigger_type, !.rules = sel]
          IN  th' = [th EXCEPT ![p] = NextRule(t)]
    /\ UNCHANGED <<direct, rules, executions, logs, service_handlers, clock,
                   last_call>>

run_rule_engine(p) ==
    \E context \in ManualContexts : Enter(p, "run_rule_engine", context, "None")

fire_event(p) ==
    Enter(p, "fire_event", EventContext(sMotion, EmptyDict, clock), "event")

process_sensor_update(p) ==
    \E value \in SensorReadings :
        Enter(p, "process_sensor_update",
              SensorContext(kT1, value, PyStr(<<>>), clock), "sensor")

\* Evaluate without the "continue" of the skipped branch: the rule is
\* entered as skipped and its actions run all the same.
EvaluateNoContinue(p) ==
    LET t    == th[p]
        rule == t.rules[t.i]
        ev   == evaluate_rule(rule, t.context)
        t1   == [t EXCEPT !.calls = Append(@, Call("evaluate_rule", rule.name, 0))]
        t2   == IF ev.ok THEN t1
                ELSE [t1 EXCEPT !.results = Append(@,
                        [rule |-> rule.name, status |-> "skipped",
                         failed_conditions |-> ev.failed])]
    IN  /\ t.pc = "eval"
        /\ th' = [th EXCEPT ![p] =
              IF rule.actions = <<>>
              THEN [t2 EXCEPT !.pc = "record", !.status = "ok"]
              ELSE [t2 EXCEPT !.pc = "act", !.j = 1]]
        /\ UNCHANGED <<direct, rules, executions, logs, service_handlers, clock,
                       last_call, ncalls>>

\* Evaluate counting a skipped rule as triggered: the skipped branch calls
\* _increment_trigger before it continues.
EvaluateCountSkip(p) ==
    LET t    == th[p]
        rule == t.rules[t.i]
        ev   == evaluate_rule(rule, t.context)
        t1   == [t EXCEPT !.calls = Append(@, Call("evaluate_rule", rule.name, 0))]
    IN  /\ t.pc = "eval"
        /\ th' = [th EXCEPT ![p] =
              IF ~ev.ok
              THEN NextRule([t1 EXCEPT !.results = Append(@,
                        [rule |-> rule.name, status |-> "skipped",
                         failed_conditions |-> ev.failed])])
              ELSE IF rule.actions = <<>>
              THEN [t1 EXCEPT !.pc = "record", !.status = "ok"]
              ELSE [t1 EXCEPT !.pc = "act", !.j = 1]]
        /\ rules' = IF ~ev.ok THEN increment_trigger(rules, rule.name, clock)
                     ELSE rules
        /\ UNCHANGED <<direct, executions, logs, service_handlers, clock,
                       last_call, ncalls>>

\* ok, failed = self.evaluate_rule(rule, context); a rule that fails is
\* entered as skipped and the loop continues.
Evaluate(p) ==
    LET t    == th[p]
        rule == t.rules[t.i]
        ev   == evaluate_rule(rule, t.context)
        t1   == [t EXCEPT !.calls = Append(@, Call("evaluate_rule", rule.name, 0))]
    IN  /\ t.pc = "eval"
        /\ th' = [th EXCEPT ![p] =
              IF ~ev.ok
              THEN NextRule([t1 EXCEPT !.results = Append(@,
                        [rule |-> rule.name, status |-> "skipped",
                         failed_conditions |-> ev.failed])])
              ELSE IF rule.actions = <<>>
              THEN [t1 EXCEPT !.pc = "record", !.status = "ok"]
              ELSE [t1 EXCEPT !.pc = "act", !.j = 1]]
        /\ UNCHANGED <<direct, rules, executions, logs, service_handlers, clock,
                       last_call, ncalls>>

\* Deliver with the try inside the loop: an exception marks the rule as
\* failed and the loop goes on with the next action.
DeliverContinue(t, out) ==
    IF t.j < Len(t.rules[t.i].actions)
    THEN [t EXCEPT !.pc = "act", !.j = @ + 1,
                   !.error_msg = IF out.exc # "None" THEN out.exc ELSE @,
                   !.action_results = IF out.exc # "None" THEN @
                                      ELSE Append(@, out.res)]
    ELSE [t EXCEPT !.pc = "record",
                   !.status = IF out.exc # "None" \/ t.error_msg # "None"
                              THEN "error" ELSE "ok",
                   !.error_msg = IF out.exc # "None" THEN out.exc ELSE @,
                   !.action_results = IF out.exc # "None" THEN @
                                      ELSE Append(@, out.res)]

\* Deliver without the try: the exception leaves run_rule_engine, the pass
\* ends with the results gathered so far.
DeliverPropagate(t, out) ==
    IF out.exc # "None"
    THEN [t EXCEPT !.pc = "done", !.i = 0, !.j = 0, !.action_results = <<>>]
    ELSE IF t.j < Len(t.rules[t.i].actions)
    THEN [t EXCEPT !.pc = "act", !.j = @ + 1,
                   !.action_results = Append(@, out.res)]
    ELSE [t EXCEPT !.pc = "record", !.status = "ok",
                   !.action_results = Append(@, out.res)]

\* Deliver starting the list of results afresh in the except branch.
DeliverResetOnError(t, out) ==
    IF out.exc # "None"
    THEN [t EXCEPT !.pc = "record", !.status = "error", !.error_msg = out.exc,
                   !.action_results = <<>>]
    ELSE IF t.j < Len(t.rules[t.i].actions)
    THEN [t EXCEPT !.pc = "act", !.j = @ + 1,
                   !.action_results = Append(@, out.res)]
    ELSE [t EXCEPT !.pc = "record", !.status = "ok",
                   !.action_results = Append(@, out.res)]

\* The outcome of the current action reaches the loop over rule.actions:
\* a result is appended and the next action is taken, an exception ends
\* the loop with status "error".
Deliver(t, out) ==
    IF out.exc # "None"
    THEN [t EXCEPT !.pc = "record", !.status = "error", !.error_msg = out.exc]
    ELSE IF t.j < Len(t.rules[t.i].actions)
    THEN [t EXCEPT !.pc = "act", !.j = @ + 1,
                   !.action_results = Append(@, out.res)]
    ELSE [t EXCEPT !.pc = "record", !.status = "ok",
                   !.action_results = Append(@, out.res)]

\* res = self.execute_action(action, context) for the next action of the
\* rule; LOG_MESSAGE writes its line to the logs table through _log.
Execute(p) ==
    LET t      == th[p]
        rule   == t.rules[t.i]
        action == rule.actions[t.j]
        out    == execute_action(action, service_handlers)
        t1     == [t EXCEPT !.calls = Append(@, Call("execute_action", rule.name, t.j)),
                            !.lock = FALSE, !.wait = FALSE, !.wait_from = 0]
    IN  /\ t.pc = "act"
        /\ logs' = IF action.type = "log_message"
                   THEN Append(logs, LogRow("INFO", <<"[rule_action]", out.res.logged>>,
                                            Json(t.context), clock))
                   ELSE logs
        /\ th' = [th EXCEPT ![p] = Deliver(t1, out)]
        /\ UNCHANGED <<direct, rules, executions, service_handlers, clock,
                       last_call, ncalls>>

\* safe_context = {k: v for k, v in context.items() if k != "credentials"}
safe_context(context) ==
    PyDict([k \in DOMAIN context.v \ {kCredentials} |-> context.v[k]])

\* The row _record_execution inserts.
ExecutionRow(rule_name, triggered_by, context, result, error, ts) ==
    [rule_name |-> rule_name, triggered_by |-> triggered_by,
     context |-> Json(safe_context(context)), result |-> result,
     error |-> error, ts |-> ts]

\* trigger_type or "manual"
Label(trigger_type) == IF Truthy(trigger_type) THEN trigger_type ELSE "manual"

\* self._record_execution(rule.name, trigger_type or "manual", context,
\* status, error_msg, duration_ms): INSERT INTO executions.
record_execution(p) ==
    LET t    == th[p]
        rule == t.rules[t.i]
    IN  /\ t.pc = "record"
        /\ executions' = Append(executions,
              ExecutionRow(rule.name, Label(t.trigger_type), t.context,
                           t.status, t.error_msg, clock))
        /\ clock' = clock + 1
        /\ th' = [th EXCEPT ![p] =
              [t EXCEPT !.pc = "increment", !.lock = FALSE,
                        !.calls = Append(@, Call("_record_execution", rule.name, 0))]]
        /\ UNCHANGED <<direct, rules, logs, service_handlers, last_call, ncalls>>

\* IncrementTrigger counting only the runs that succeeded: the UPDATE is
\* left out when the status is "error".
IncrementTriggerOkOnly(p) ==
    LET t    == th[p]
        rule == t.rules[t.i]
    IN  /\ t.pc = "increment"
        /\ rules' = IF t.status = "ok"
                     THEN increment_trigger(rules, rule.name, clock)
                     ELSE rules
        /\ clock' = clock + 1
        /\ th' = [th EXCEPT ![p] =
              NextRule([t EXCEPT
                  !.calls = Append(@, Call("_increment_trigger", rule.name, 0)),
                  !.results = Append(@, [rule |-> rule.name, status |-> t.status,
                                         actions |-> t.action_results])])]
        /\ UNCHANGED <<direct, executions, logs, service_handlers, last_call, ncalls>>

\* IncrementTrigger writing back the count of the Rule object the pass
\* loaded, plus one, instead of incrementing the stored count.
IncrementTriggerStale(p) ==
    LET t    == th[p]
        rule == t.rules[t.i]
    IN  /\ t.pc = "increment"
        /\ rules' = [k \in 1..Len(rules) |->
              IF rules[k].name = rule.name
              THEN [rules[k] EXCEPT !.trigger_count = rule.trigger_count + 1,
                                    !.last_triggered = clock]
              ELSE rules[k]]
        /\ clock' = clock + 1
        /\ th' = [th EXCEPT ![p] =
              NextRule([t EXCEPT
                  !.calls = Append(@, Call("_increment_trigger", rule.name, 0)),
                  !.results = Append(@, [rule |-> rule.name, status |-> t.status,
                                         actions |-> t.action_results])])]
        /\ UNCHANGED <<direct, executions, logs, service_handlers, last_call, ncalls>>

\* self._increment_trigger(rule.name): UPDATE rules; then the rule's entry
\* is appended to results and the loop continues.
IncrementTrigger(p) ==
    LET t    == th[p]
        rule == t.rules[t.i]
    IN  /\ t.pc = "increment"
        /\ rules' = increment_trigger(rules, rule.name, clock)
        /\ clock' = clock + 1
        /\ th' = [th EXCEPT ![p] =
              NextRule([t EXCEPT
                  !.calls = Append(@, Call("_increment_trigger", rule.name, 0)),
                  !.results = Append(@, [rule |-> rule.name, status |-> t.status,
                                         actions |-> t.action_results])])]
        /\ UNCHANGED <<direct, executions, logs, service_handlers, last_call, ncalls>>

\* return results: the caller has the list, the thread is free again.
Return(p) ==
    /\ th[p].pc = "done"
    /\ th' = [th EXCEPT ![p] = Idle]
    /\ UNCHANGED <<direct, rules, executions, logs, service_handlers, clock,
                   last_call, ncalls>>

Step(p) ==
    \/ run_rule_engine(p)
    \/ fire_event(p)
    \/ process_sensor_update(p)
    \/ Evaluate(p)
    \/ Execute(p)
    \/ record_execution(p)
    \/ IncrementTrigger(p)
    \/ Return(p)

Manage ==
    \/ AddRule
    \/ add_rule_from_json
    \/ enable_rule
    \/ disable_rule
    \/ delete_rule
    \/ register_service

\* One caller thread runs passes while rules are managed.
Next ==
    \/ Manage
    \/ Step(1)

Spec == Init /\ [][Next]_vars

\* The rules are set up; then each thread makes one call, concurrently
\* with the other's.
StepConc(p) ==
    \/ run_rule_engine(p)
    \/ fire_event(p)
    \/ process_sensor_update(p)
    \/ Evaluate(p)
    \/ Execute(p)
    \/ record_execution(p)
    \/ IncrementTrigger(p)

NextConc ==
    \/ (\A p \in Threads : th[p].pc = "idle") /\ Manage
    \/ \E p \in Threads : StepConc(p)

SpecConc == Init /\ [][NextConc]_vars

\* Two threads make one call each while the rules are managed.
NextMix ==
    \/ Manage
    \/ \E p \in Threads : StepConc(p)

SpecMix == Init /\ [][NextMix]_vars

(***************************************************************************)
(* The lock and the waits made visible.  In Spec and SpecConc a            *)
(* "with _LOCK" block is one step (the lock is taken, the statement runs,  *)
(* the lock is released) and so is an action that sleeps or calls a        *)
(* handler.  Here taking the lock is a step of its own, which waits for    *)
(* the lock to be free, and a sleep or a handler call begins in one step   *)
(* and ends in a later one, or never.                                      *)
(***************************************************************************)
\* The action the thread is at.
CurrentAction(t) == t.rules[t.i].actions[t.j]

\* The thread is at a statement inside "with _LOCK": the INSERT of
\* _record_execution, the UPDATE of _increment_trigger, the INSERT of _log.
AtLocked(t) ==
    \/ t.pc \in {"record", "increment"}
    \/ t.pc = "act" /\ CurrentAction(t).type = "log_message"

\* The thread is at an action that sleeps or calls a registered handler.
AtWait(t) ==
    /\ t.pc = "act"
    /\ \/ CurrentAction(t).type = "delay"
       \/ /\ CurrentAction(t).type = "call_service"
          /\ CurrentAction(t).target \in DOMAIN service_handlers

\* with _LOCK: the thread takes the lock when no thread holds it.
Acquire(p) ==
    /\ AtLocked(th[p])
    /\ \A q \in Threads : ~th[q].lock
    /\ th' = [th EXCEPT ![p].lock = TRUE]
    /\ UNCHANGED <<rules, executions, logs, service_handlers, clock,
                   last_call, ncalls, direct>>

\* The sleep or the handler call taking place under the lock.
BeginWaitLocked(p) ==
    /\ AtWait(th[p])
    /\ ~th[p].wait
    /\ \A q \in Threads : ~th[q].lock
    /\ th' = [th EXCEPT ![p].wait = TRUE, ![p].wait_from = ncalls,
                         ![p].lock = TRUE]
    /\ UNCHANGED <<rules, executions, logs, service_handlers, clock,
                   last_call, ncalls, direct>>

\* time.sleep(secs) or handler(service, action.params) is entered.
BeginWait(p) ==
    /\ AtWait(th[p])
    /\ ~th[p].wait
    /\ th' = [th EXCEPT ![p].wait = TRUE, ![p].wait_from = ncalls]
    /\ UNCHANGED <<rules, executions, logs, service_handlers, clock,
                   last_call, ncalls, direct>>

\* The thread can take its next step of run_rule_engine: it holds the lock
\* when the statement is under it, and its sleep or handler call is over.
Ready(p) ==
    /\ AtLocked(th[p]) => th[p].lock
    /\ AtWait(th[p]) => th[p].wait

StepLock(p) ==
    \/ run_rule_engine(p)
    \/ fire_event(p)
    \/ process_sensor_update(p)
    \/ Evaluate(p)
    \/ Acquire(p)
    \/ BeginWait(p)
    \/ Ready(p) /\ Execute(p)
    \/ Ready(p) /\ record_execution(p)
    \/ Ready(p) /\ IncrementTrigger(p)

\* The rules and the handlers are set up; then each thread makes one call.
Setup ==
    \/ AddRule
    \/ add_rule_from_json
    \/ register_service

NextLock ==
    \/ (\A p \in Threads : th[p].pc = "idle") /\ Setup
    \/ \E p \in Threads : StepLock(p)

SpecLock == Init /\ [][NextLock]_vars

(***************************************************************************)
(* Direct calls of Condition.evaluate and evaluate_rule, as the tests make *)
(* them: the arguments are chosen, the call is made, the result is kept.   *)
(***************************************************************************)
kT2 == <<"t", "2">>

\* ".".join(parts)
RECURSIVE Join(_)
Join(parts) ==
    IF Len(parts) = 1 THEN parts[1]
    ELSE parts[1] \o <<".">> \o Join(Tail(parts))

\* Field paths, as their parts: sensor.t1.value, sensor.t1.unit,
\* sensor.t2.value, ts.value, and the empty path.
FieldParts ==
    {<<kSensor, kT1, kValue>>, <<kSensor, kT1, kUnit>>,
     <<kSensor, kT2, kValue>>, <<kTs, kValue>>, <<<<>>>>}

\* {"sensor": {"t1": {"value": 35, "unit": None}}, "ts": 7} and
\* {"sensor": {"t1": {"value": "hot"}}}
EvalContexts ==
    {PyDict((kSensor :> PyDict(kT1 :> PyDict((kValue :> PyInt(35)) @@ (kUnit :> None))))
         @@ (kTs :> PyInt(7))),
     PyDict(kSensor :> PyDict(kT1 :> PyDict(kValue :> PyStr(sHot))))}

\* The operator strings: the eight of _OP_MAP and one it lacks.
EvalOps == {"==", "!=", ">", ">=", "<", "<=", "in", "contains", "~="}

EvalValues == {PyInt(30), None, PyStr(sHot), PyList(<<PyInt(35), PyStr(sHot)>>)}

EvalConditions ==
    {[field |-> Join(parts), op |-> op, value |-> value, negate |-> negate] :
        parts \in FieldParts, op \in EvalOps, value \in EvalValues,
        negate \in BOOLEAN}

\* The conditions of the rules handed to evaluate_rule: one that holds of
\* a reading of 35, one that is false, one on a missing field, the same
\* negated, and one with an unknown operator.
RuleConditions ==
    {[field |-> fT1Value, op |-> ">", value |-> PyInt(30), negate |-> FALSE],
     [field |-> fT1Value, op |-> "==", value |-> PyInt(30), negate |-> FALSE],
     [field |-> Join(<<kSensor, kT2, kValue>>), op |-> "==", value |-> PyInt(30),
      negate |-> FALSE],
     [field |-> Join(<<kSensor, kT2, kValue>>), op |-> "==", value |-> PyInt(30),
      negate |-> TRUE],
     [field |-> fT1Value, op |-> "~=", value |-> PyInt(30), negate |-> FALSE]}

ConditionLists ==
    UNION {[1..n -> RuleConditions] : n \in 0..MaxConds}

DirectCalls ==
    {[fn |-> "evaluate", pc |-> "called", arg |-> cond, context |-> context,
      out |-> <<>>] : cond \in EvalConditions, context \in EvalContexts}
    \cup
    {[fn |-> "evaluate_rule", pc |-> "called",
      arg |-> [TempAlert(1) EXCEPT !.conditions = conds],
      context |-> context, out |-> <<>>] :
        conds \in ConditionLists, context \in EvalContexts}

InitDirect ==
    /\ rules = <<>>
    /\ executions = <<>>
    /\ logs = <<>>
    /\ service_handlers = <<>>
    /\ clock = 1
    /\ th = [p \in Threads |-> Idle]
    /\ last_call = Made("init", "", <<>>, [op |-> "", name |-> ""])
    /\ ncalls = 0
    /\ direct \in DirectCalls

\* cond.evaluate(context)
direct_evaluate ==
    /\ direct.fn = "evaluate"
    /\ direct.pc = "called"
    /\ direct' = [direct EXCEPT !.pc = "returned",
                                !.out = evaluate(direct.arg, direct.context)]
    /\ UNCHANGED <<rules, executions, logs, service_handlers, clock, th,
                   last_call, ncalls>>

\* hub.evaluate_rule(rule, context)
direct_evaluate_rule ==
    /\ direct.fn = "evaluate_rule"
    /\ direct.pc = "called"
    /\ direct' = [direct EXCEPT !.pc = "returned",
                                !.out = evaluate_rule(direct.arg, direct.context)]
    /\ UNCHANGED <<rules, executions, logs, service_handlers, clock, th,
                   last_call, ncalls>>

NextDirect ==
    \/ direct_evaluate
    \/ direct_evaluate_rule

SpecDirect == InitDirect /\ [][NextDirect]_vars

(***************************************************************************)
(* Events and sensor updates whose name the stored rules' trigger configs  *)
(* do or do not declare.                                                   *)
(***************************************************************************)
EventNames == {sMotion, sOn}
SensorIds  == {kT1, kT2}

\* fire_event(event_name, {})
fire_event_named(p) ==
    \E event_name \in EventNames :
        Enter(p, "fire_event", EventContext(event_name, EmptyDict, clock), "event")

\* process_sensor_update(sensor_id, value)
process_sensor_update_of(p) ==
    \E sensor_id \in SensorIds, value \in SensorReadings :
        Enter(p, "process_sensor_update",
              SensorContext(sensor_id, value, PyStr(<<>>), clock), "sensor")

StepTrigger(p) ==
    \/ fire_event_named(p)
    \/ process_sensor_update_of(p)
    \/ Evaluate(p)
    \/ Execute(p)
    \/ record_execution(p)
    \/ IncrementTrigger(p)
    \/ Return(p)

\* One caller thread fires events and sensor updates while rules are managed.
NextTrigger ==
    \/ Manage
    \/ StepTrigger(1)

SpecTrigger == Init /\ [][NextTrigger]_vars

(***************************************************************************)
(* Properties.                                                             *)
(***************************************************************************)
\* The rule has a condition that does not evaluate to true on the context.
HasFailing(rule, context) ==
    \E c \in 1..Len(rule.conditions) :
        evaluate(rule.conditions[c], context) # Ret(TRUE)

\* The positions of the pass's calls that are about the rule.
CallsOf(t, op, name) ==
    {c \in 1..Len(t.calls) : t.calls[c].op = op /\ t.calls[c].rule = name}

\* The entries of the results that are not "skipped", for the rule.
Outcomes(t, name) ==
    {k \in 1..Len(t.results) :
        t.results[k].rule = name /\ t.results[k].status # "skipped"}

SumOutcomes(name) ==
    Cardinality(UNION {{<<p, k>> : k \in Outcomes(th[p], name)} : p \in Threads})

\* C1: concurrent invocations lose no increment.  The rules are set up with
\* trigger_count 0 before the threads call run_rule_engine; whatever the
\* interleaving, a rule's stored trigger_count is that prior value plus the
\* number of non-skipped outcomes the invocations reached for it.
C1_NoLostIncrement ==
    \A k \in 1..Len(rules) :
        rules[k].trigger_count = 0 + SumOutcomes(rules[k].name)

\* Both threads loaded temp_alert before either incremented it, both
\* reached a non-skipped outcome, and the count is 2.
C1_Witness ==
    /\ \A p \in Threads :
          /\ th[p].pc = "done"
          /\ Outcomes(th[p], "temp_alert") # {}
          /\ \A k \in 1..Len(th[p].rules) : th[p].rules[k].trigger_count = 0
    /\ \E k \in 1..Len(rules) :
          rules[k].name = "temp_alert" /\ rules[k].trigger_count = 2

\* C2: a selected rule with a failing condition has none of its actions
\* executed, and its result entry is "skipped" with a non-empty list of
\* failed conditions.
C2_FailingRuleSkipped ==
    \A p \in Threads :
        LET t == th[p]
        IN  \A k \in 1..Len(t.rules) :
                HasFailing(t.rules[k], t.context) =>
                    /\ CallsOf(t, "execute_action", t.rules[k].name) = {}
                    /\ k = t.i => t.pc = "eval"
                    /\ k <= Len(t.results) =>
                          /\ t.results[k].rule = t.rules[k].name
                          /\ t.results[k].status = "skipped"
                          /\ Len(t.results[k].failed_conditions) > 0

\* A pass has returned a skipped entry for a rule whose condition fails,
\* with the condition described.
C2_Witness ==
    \E p \in Threads :
        /\ th[p].pc = "done"
        /\ \E k \in 1..Len(th[p].rules) :
              /\ HasFailing(th[p].rules[k], th[p].context)
              /\ Len(th[p].rules[k].actions) > 0
              /\ th[p].results[k].status = "skipped"
              /\ th[p].results[k].failed_conditions[1].kind = "failed"

\* The rows of the table, and the records of the log, that bear the name.
RowsOf(tbl, name) == {tbl[k] : k \in RowsNamed(tbl, name)}

RecordsOf(tbl, name) == SelectSeq(tbl, LAMBDA r : r.rule_name = name)

\* C3: a skipped outcome leaves the persistent state alone.  For a rule of
\* the pass whose conditions fail on the context, the pass calls neither
\* _record_execution nor _increment_trigger, and no step of the pass
\* changes the rule's row (trigger_count, last_triggered) or appends an
\* execution record for it.
C3_SkippedCalls ==
    \A p \in Threads :
        \A k \in 1..Len(th[p].rules) :
            HasFailing(th[p].rules[k], th[p].context) =>
                /\ CallsOf(th[p], "_record_execution", th[p].rules[k].name) = {}
                /\ CallsOf(th[p], "_increment_trigger", th[p].rules[k].name) = {}

C3_SkippedStep ==
    \A p \in Threads :
        th'[p] # th[p] =>
            \A k \in 1..Len(th'[p].rules) :
                HasFailing(th'[p].rules[k], th'[p].context) =>
                    /\ RowsOf(rules', th'[p].rules[k].name)
                          = RowsOf(rules, th'[p].rules[k].name)
                    /\ RecordsOf(executions', th'[p].rules[k].name)
                          = RecordsOf(executions, th'[p].rules[k].name)

C3_SkipLeavesStateUnchanged == []C3_SkippedCalls /\ [][C3_SkippedStep]_vars

\* A pass has skipped a rule that had been triggered before: the row still
\* has the count and the time the pass loaded, the log still one record.
C3_Witness ==
    \E p \in Threads :
        /\ th[p].pc = "done"
        /\ \E k \in 1..Len(th[p].rules) :
              /\ th[p].results[k].status = "skipped"
              /\ th[p].rules[k].trigger_count = 1
              /\ \E r \in RowsOf(rules, th[p].rules[k].name) :
                    /\ r.trigger_count = 1
                    /\ r.last_triggered = th[p].rules[k].last_triggered
                    /\ r.last_triggered # NULL
              /\ Len(RecordsOf(executions, th[p].rules[k].name)) = 1

\* The j of the pass's execute_action calls for the rule, in call order.
Executed(t, name) ==
    LET sel == SelectSeq(t.calls,
                   LAMBDA c : c.op = "execute_action" /\ c.rule = name)
    IN  [x \in 1..Len(sel) |-> sel[x].j]

\* The action raises when executed with these handlers registered.
Fails(action, handlers) ==
    \/ action.type \notin ActionTypes
    \/ /\ action.type = "call_service"
       /\ action.target \in DOMAIN handlers
       /\ handlers[action.target] = "raises"
    \/ /\ action.type = "delay"
       /\ \/ DelaySecs(action).t # "int"
          \/ DelaySecs(action).v < 0

\* An action type execute_action does not know fails whatever is registered.
AlwaysFails(action) == action.type \notin ActionTypes

\* C4: the actions of a rule whose conditions pass are executed one at a
\* time in declared order from the first; after an action that fails none
\* of the later ones is executed; when none fails all n are executed and
\* the status is "ok".
C4_OrderOfCalls ==
    \A p \in Threads :
        LET t == th[p]
        IN  \A k \in 1..Len(t.rules) :
                LET rule == t.rules[k]
                    n    == Len(rule.actions)
                    ex   == Executed(t, rule.name)
                    m    == Len(ex)
                IN  /\ \A x \in 1..m : ex[x] = x
                    /\ m <= n
                    /\ \A j \in 1..n : AlwaysFails(rule.actions[j]) => m <= j
                    /\ (k = t.i /\ t.pc = "act") => m = t.j - 1
                    /\ (k <= Len(t.results) /\ ~HasFailing(rule, t.context)) =>
                          /\ t.results[k].status \in {"ok", "error"}
                          /\ t.results[k].status = "ok" =>
                                m = n /\ Len(t.results[k].actions) = n
                          /\ t.results[k].status = "error" =>
                                m >= 1 /\ Len(t.results[k].actions) = m - 1

C4_ExecuteStep ==
    \A p \in Threads :
        (th[p].pc = "act" /\ th'[p] # th[p]) =>
            LET t      == th[p]
                n      == Len(t.rules[t.i].actions)
                action == t.rules[t.i].actions[t.j]
            IN  IF Fails(action, service_handlers)
                THEN th'[p].pc = "record" /\ th'[p].status = "error"
                ELSE IF t.j < n
                THEN th'[p].pc = "act" /\ th'[p].j = t.j + 1
                ELSE th'[p].pc = "record" /\ th'[p].status = "ok"

C4_ActionsInOrderUntilFailure == []C4_OrderOfCalls /\ [][C4_ExecuteStep]_vars

\* A rule with three actions whose second action failed: two were
\* executed, the first left its result, the status is "error".
C4_Witness ==
    \E p \in Threads :
        /\ th[p].pc = "done"
        /\ \E k \in 1..Len(th[p].rules) :
              /\ Len(th[p].rules[k].actions) = 3
              /\ Executed(th[p], th[p].rules[k].name) = <<1, 2>>
              /\ th[p].results[k].status = "error"
              /\ Len(th[p].results[k].actions) = 1

\* The label the entry point gives the pass: fire_event and
\* process_sensor_update pass their trigger type, a direct call passes none.
EntryLabel(entry) ==
    CASE entry = "fire_event" -> "event"
      [] entry = "process_sensor_update" -> "sensor"
      [] OTHER -> "manual"

\* The threads that have recorded the rule and not yet counted it.
Counting(name) ==
    {p \in Threads : th[p].pc = "increment" /\ th[p].rules[th[p].i].name = name}

\* C5: every non-skipped outcome ("ok" or "error") appends exactly one
\* execution record with the rule name, the trigger label ("manual" when
\* none was given) and the status, adds exactly 1 to trigger_count and sets
\* last_triggered; so the executions of a rule that stays in the store
\* raise its count by their number and add as many records.
C5_CountsAgree ==
    /\ \A k \in 1..Len(rules) :
          /\ rules[k].trigger_count = SumOutcomes(rules[k].name)
          /\ Len(RecordsOf(executions, rules[k].name))
                = rules[k].trigger_count + Cardinality(Counting(rules[k].name))
          /\ rules[k].trigger_count > 0 <=> rules[k].last_triggered # NULL
    /\ \A p \in Threads : \A name \in RuleNames :
          /\ Cardinality(CallsOf(th[p], "_increment_trigger", name))
                = Cardinality(Outcomes(th[p], name))
          /\ Cardinality(CallsOf(th[p], "_record_execution", name))
                = Cardinality(Outcomes(th[p], name))
                    + (IF p \in Counting(name) THEN 1 ELSE 0)

C5_RecordStep ==
    \A p \in Threads :
        /\ (th[p].pc = "record" /\ th'[p] # th[p]) =>
              /\ Len(executions') = Len(executions) + 1
              /\ SubSeq(executions', 1, Len(executions)) = executions
              /\ LET r == executions'[Len(executions')]
                 IN  /\ r.rule_name = th[p].rules[th[p].i].name
                     /\ r.triggered_by = EntryLabel(th[p].entry)
                     /\ r.result = th[p].status
                     /\ r.result \in {"ok", "error"}
              /\ rules' = rules
        /\ (th[p].pc = "increment" /\ th'[p] # th[p]) =>
              /\ executions' = executions
              /\ Len(rules') = Len(rules)
              /\ \A k \in 1..Len(rules) :
                    IF rules[k].name = th[p].rules[th[p].i].name
                    THEN /\ rules'[k].trigger_count = rules[k].trigger_count + 1
                         /\ rules'[k].last_triggered = clock
                    ELSE rules'[k] = rules[k]
              /\ LET e == th'[p].results[Len(th'[p].results)]
                 IN  /\ e.rule = th[p].rules[th[p].i].name
                     /\ e.status = th[p].status
        /\ (th[p].pc \notin {"record", "increment"} /\ th'[p] # th[p]) =>
              /\ executions' = executions
              /\ rules' = rules

C5_OneRecordOneIncrement == []C5_CountsAgree /\ [][C5_RecordStep]_vars

\* Two executions of temp_alert one after the other, one of them failed:
\* the second pass loaded the count 1; the count is 2, the records are 2.
C5_Witness ==
    /\ \A p \in Threads : th[p].pc = "done" /\ Outcomes(th[p], "temp_alert") # {}
    /\ \E p \in Threads : \E k \in 1..Len(th[p].rules) :
          th[p].rules[k].name = "temp_alert" /\ th[p].rules[k].trigger_count = 1
    /\ \E r \in RowsOf(rules, "temp_alert") : r.trigger_count = 2
    /\ Len(RecordsOf(executions, "temp_alert")) = 2
    /\ \E x \in 1..Len(executions) : executions[x].result = "error"
    /\ \E x \in 1..Len(executions) : executions[x].result = "ok"

\* C6: failures stay within their rule.  The pass returns exactly one
\* entry per selected rule, in the order of the rules; a rule whose
\* condition errors or whose action fails does not keep a later rule from
\* being evaluated and, when its conditions pass, executed.
C6_OneEntryPerRule ==
    \A p \in Threads :
        LET t == th[p]
        IN  /\ Len(t.results) <= Len(t.rules)
            /\ t.pc \in {"eval", "act", "record", "increment"} =>
                  Len(t.results) = t.i - 1
            /\ t.pc = "done" => Len(t.results) = Len(t.rules)
            /\ \A k \in 1..Len(t.results) :
                  /\ t.results[k].rule = t.rules[k].name
                  /\ CallsOf(t, "evaluate_rule", t.rules[k].name) # {}
                  /\ IF HasFailing(t.rules[k], t.context)
                     THEN t.results[k].status = "skipped"
                     ELSE /\ t.results[k].status \in {"ok", "error"}
                          /\ t.rules[k].actions # <<>> =>
                                CallsOf(t, "execute_action", t.rules[k].name) # {}

\* The first rule of a pass failed in an action (status "error"), the
\* rule after it was evaluated and executed (status "ok").
C6_Witness ==
    \E p \in Threads :
        /\ th[p].pc = "done"
        /\ Len(th[p].results) = 2
        /\ th[p].results[1].status = "error"
        /\ th[p].results[2].status = "ok"
        /\ Len(th[p].results[2].actions) > 0

\* The same after a rule whose condition raised (unknown operator).
C6_WitnessConditionError ==
    \E p \in Threads :
        /\ th[p].pc = "done"
        /\ Len(th[p].results) = 2
        /\ th[p].results[1].status = "skipped"
        /\ th[p].results[1].failed_conditions[1].kind = "error"
        /\ th[p].results[2].status = "ok"

\* The position of the rule in the list the pass loaded.
IndexOf(t, name) == CHOOSE k \in 1..Len(t.rules) : t.rules[k].name = name

\* C7: within a pass the rules are handled in non-increasing priority
\* order: everything the pass does for a rule of higher priority (its
\* evaluation, its actions, its execution record, its count) comes before
\* anything it does for a rule of lower priority, and its result entry
\* comes first.
C7_PriorityOrder ==
    \A p \in Threads :
        LET t == th[p]
        IN  /\ \A a, b \in 1..Len(t.rules) :
                  a < b => t.rules[a].priority >= t.rules[b].priority
            /\ \A a, b \in 1..Len(t.calls) :
                  t.rules[IndexOf(t, t.calls[a].rule)].priority
                      > t.rules[IndexOf(t, t.calls[b].rule)].priority
                    => a < b
            /\ \A a, b \in 1..Len(t.results) :
                  t.rules[IndexOf(t, t.results[a].rule)].priority
                      > t.rules[IndexOf(t, t.results[b].rule)].priority
                    => a < b

\* A pass has executed two rules of different priority, the higher first.
C7_Witness ==
    \E p \in Threads :
        /\ th[p].pc = "done"
        /\ Len(th[p].results) = 2
        /\ th[p].rules[1].priority > th[p].rules[2].priority
        /\ th[p].results[1].status # "skipped"
        /\ th[p].results[2].status # "skipped"
        /\ th[p].results[1].rule = th[p].rules[1].name

\* The names of the rules in a list.
Names(rs) == {rs[k].name : k \in 1..Len(rs)}

\* The rows a pass entered through this entry point is to evaluate.
Eligible(tbl, entry) ==
    {k \in 1..Len(tbl) :
        /\ tbl[k].enabled = 1
        /\ entry = "fire_event" => tbl[k].definition.trigger.type = "event"
        /\ entry = "process_sensor_update" =>
              tbl[k].definition.trigger.type = "sensor"}

\* C8: a pass evaluates exactly the rules that are enabled when it loads
\* them and, when a trigger type is given, carry that trigger tag:
\* fire_event only EVENT rules, process_sensor_update only SENSOR rules;
\* a rule disabled at load is not evaluated, executed, counted or recorded
\* by the pass.
C8_LoadStep ==
    \A p \in Threads :
        /\ (th[p].pc = "idle" /\ th'[p] # th[p]) =>
              /\ Names(th'[p].rules) = {rules[k].name : k \in Eligible(rules, th'[p].entry)}
              /\ Len(th'[p].rules) = Cardinality(Eligible(rules, th'[p].entry))
        /\ (th[p].pc \notin {"idle", "done"} /\ th'[p] # th[p]) =>
              /\ th'[p].rules = th[p].rules
              /\ \A name \in RuleNames \ Names(th[p].rules) :
                    /\ RowsOf(rules', name) = RowsOf(rules, name)
                    /\ RecordsOf(executions', name) = RecordsOf(executions, name)

C8_OnlyLoadedRules ==
    \A p \in Threads :
        LET t == th[p]
        IN  /\ \A c \in 1..Len(t.calls) : t.calls[c].rule \in Names(t.rules)
            /\ \A k \in 1..Len(t.results) : t.results[k].rule \in Names(t.rules)
            /\ t.pc = "done" =>
                  \A k \in 1..Len(t.rules) :
                      CallsOf(t, "evaluate_rule", t.rules[k].name) # {}
            /\ \A k \in 1..Len(t.rules) :
                  /\ t.rules[k].enabled
                  /\ t.entry = "fire_event" => t.rules[k].trigger.type = "event"
                  /\ t.entry = "process_sensor_update" =>
                        t.rules[k].trigger.type = "sensor"

C8_ExactlyEnabledMatching == []C8_OnlyLoadedRules /\ [][C8_LoadStep]_vars

\* fire_event has run the one EVENT rule while an enabled SENSOR rule was
\* in the store and was left out.
C8_Witness ==
    \E p \in Threads :
        /\ th[p].pc = "done"
        /\ th[p].entry = "fire_event"
        /\ Len(th[p].results) = 1
        /\ th[p].results[1].status = "ok"
        /\ \E k \in 1..Len(rules) :
              /\ rules[k].enabled = 1
              /\ rules[k].definition.trigger.type = "sensor"
              /\ rules[k].trigger_count = 0
              /\ rules[k].name \notin Names(th[p].rules)

\* A direct call has run while a disabled rule was in the store.
C8_WitnessDisabled ==
    \E p \in Threads :
        /\ th[p].pc = "done"
        /\ th[p].entry = "run_rule_engine"
        /\ Len(th[p].results) = 1
        /\ last_call.op = "disable_rule"
        /\ last_call.name \notin Names(th[p].rules)
        /\ \E r \in RowsOf(rules, last_call.name) : r.trigger_count = 0

\* A rule-management call is made in this step.
ManageStep(op) == ncalls' = ncalls + 1 /\ th' = th /\ last_call'.op = op

\* The names get_active_rules returns.
ActiveNames(tbl) == {tbl[k].name : k \in {x \in 1..Len(tbl) : tbl[x].enabled = 1}}

\* C9: disable_rule(name) takes the rule out of get_active_rules();
\* enable_rule(name) puts it back; neither changes anything else: the
\* definition, trigger_count and last_triggered of the rule are the same
\* after as before, and every execution record is still there.
C9_ToggleStep ==
    /\ ManageStep("disable_rule") =>
          /\ last_call'.name \notin ActiveNames(rules')
          /\ \A s \in ActiveOrders(rules') :
                last_call'.name \notin Names(get_active_rules(rules', s))
    /\ ManageStep("enable_rule") =>
          /\ RowsNamed(rules, last_call'.name) # {} =>
                last_call'.name \in ActiveNames(rules')
          /\ \A s \in ActiveOrders(rules') :
                Cardinality({a \in 1..Len(s) :
                    get_active_rules(rules', s)[a].name = last_call'.name})
                  = Cardinality(RowsNamed(rules, last_call'.name))
          /\ {[r EXCEPT !.enabled = TRUE] : r \in get_rule(rules', last_call'.name)}
                = {[r EXCEPT !.enabled = TRUE] : r \in get_rule(rules, last_call'.name)}
    /\ (ManageStep("disable_rule") \/ ManageStep("enable_rule")) =>
          /\ executions' = executions
          /\ Len(rules') = Len(rules)
          /\ \A k \in 1..Len(rules) :
                /\ [rules'[k] EXCEPT !.enabled = rules[k].enabled] = rules[k]
                /\ rules[k].name # last_call'.name => rules'[k] = rules[k]

C9_Toggled ==
    /\ last_call.op = "disable_rule" => last_call.name \notin ActiveNames(rules)
    /\ last_call.op = "enable_rule" =>
          \A r \in RowsOf(rules, last_call.name) : r.enabled = 1

C9_DisableEnableRestores == []C9_Toggled /\ [][C9_ToggleStep]_vars

\* A rule that was triggered once has been disabled and then enabled: it
\* is active with its count, its time and its record.
C9_Witness ==
    /\ last_call.op = "enable_rule"
    /\ last_call.prev = [op |-> "disable_rule", name |-> last_call.name]
    /\ last_call.name \in ActiveNames(rules)
    /\ \E r \in RowsOf(rules, last_call.name) :
          r.trigger_count = 1 /\ r.last_triggered # NULL
    /\ Len(RecordsOf(executions, last_call.name)) = 1

\* C10: add_rule replaces by name.  The store never holds two rules of one
\* name; after an add the rule stored under the name is the one just
\* added (as its JSON document reads back), it is listed exactly once in
\* get_active_rules() when it is enabled, and it stays so until the next
\* rule-management call.
C10_ReplaceByName ==
    /\ \A name \in RuleNames : Cardinality(RowsNamed(rules, name)) <= 1
    /\ last_call.op = "add_rule" =>
          /\ Cardinality(RowsNamed(rules, last_call.name)) = 1
          /\ \A r \in RowsOf(rules, last_call.name) :
                /\ r.definition = to_json(last_call.rule)
                /\ r.priority = last_call.rule.priority
                /\ r.enabled = 1 <=> last_call.rule.enabled
          /\ \A r \in get_rule(rules, last_call.name) :
                [r EXCEPT !.trigger_count = 0, !.last_triggered = NULL]
                    = to_json(last_call.rule)
          /\ \A s \in ActiveOrders(rules) :
                Cardinality({a \in 1..Len(s) :
                    get_active_rules(rules, s)[a].name = last_call.name})
                  = IF last_call.rule.enabled THEN 1 ELSE 0

\* temp_alert was added, triggered by a sensor update, and added again
\* with its second definition: one row, holding the second definition.
C10_Witness ==
    /\ last_call.op = "add_rule"
    /\ last_call.name = "temp_alert"
    /\ last_call.rule.description = "v2"
    /\ \E x \in 1..Len(executions) :
          executions[x].rule_name = "temp_alert" /\ executions[x].triggered_by = "sensor"
    /\ \E r \in RowsOf(rules, "temp_alert") : r.definition.description = "v2"

\* The same document has been added twice in a row.
C10_WitnessTwice ==
    /\ last_call.op = "add_rule"
    /\ last_call.prev = [op |-> "add_rule", name |-> last_call.name]
    /\ last_call.rule.description = ""
    /\ last_call.name = "temp_alert"
    /\ \A x \in 1..Len(logs) : logs[x].message = <<"Rule added", "temp_alert">>
    /\ Cardinality(RowsNamed(rules, "temp_alert")) = 1

\* Every key of the path is there: each part is a key of the mapping that
\* the parts before it lead to.
RECURSIVE PathPresent(_, _)
PathPresent(parts, val) ==
    \/ parts = <<>>
    \/ /\ val.t = "dict"
       /\ Head(parts) \in DOMAIN val.v
       /\ PathPresent(Tail(parts), val.v[Head(parts)])

\* The value stored at a path that is present.
RECURSIVE StoredAt(_, _)
StoredAt(parts, val) ==
    IF parts = <<>> THEN val ELSE StoredAt(Tail(parts), val.v[Head(parts)])

\* Condition.evaluate has returned (or raised) for a field with these parts.
Evaluated(parts) ==
    /\ direct.fn = "evaluate"
    /\ direct.pc = "returned"
    /\ direct.arg.field = Join(parts)

\* C11: for a condition whose field path is missing from the context (a
\* key along the path is absent, or a value on the way is no mapping),
\* Condition.evaluate returns the negate flag, whatever the operator
\* string and the comparison value are, and does not raise.
C11_MissingReturnsNegate ==
    \A parts \in FieldParts :
        (Evaluated(parts) /\ ~PathPresent(parts, direct.context)) =>
            direct.out = Ret(direct.arg.negate)

\* A negated condition with an operator _OP_MAP lacks, on a path that
\* runs into a value that is no mapping, has returned True.
C11_Witness ==
    /\ Evaluated(<<kTs, kValue>>)
    /\ PathPresent(<<kTs>>, direct.context)
    /\ ~PathPresent(<<kTs, kValue>>, direct.context)
    /\ ~OpKnown(direct.arg.op)
    /\ direct.arg.negate
    /\ direct.out = Ret(TRUE)

\* The same with a key that is absent.
C11_WitnessAbsentKey ==
    /\ Evaluated(<<kSensor, kT2, kValue>>)
    /\ PathPresent(<<kSensor>>, direct.context)
    /\ direct.arg.op = "in"
    /\ direct.arg.value = PyInt(30)
    /\ direct.out = Ret(FALSE)

\* C12: for a condition whose field path is present in the context,
\* whatever value is stored there (None included), Condition.evaluate
\* gives op(actual, value), inverted when negate is set, for each of the
\* eight operators (an exception of the operator is the call's exception),
\* and raises the invalid-operator error for any other operator string.
C12_PresentAppliesOperator ==
    \A parts \in FieldParts :
        (Evaluated(parts) /\ PathPresent(parts, direct.context)) =>
            LET actual == StoredAt(parts, direct.context)
                result == OP_MAP(direct.arg.op, actual, direct.arg.value)
            IN  IF ~OpKnown(direct.arg.op) THEN direct.out = Raise("ValueError")
                ELSE IF result.exc # "none" THEN direct.out = result
                ELSE direct.out = Ret(result.val # direct.arg.negate)

\* The same for the values that are not None: this much the code does.
C12_PresentNotNone ==
    \A parts \in FieldParts :
        (/\ Evaluated(parts)
         /\ PathPresent(parts, direct.context)
         /\ StoredAt(parts, direct.context) # None) =>
            LET actual == StoredAt(parts, direct.context)
                result == OP_MAP(direct.arg.op, actual, direct.arg.value)
            IN  IF ~OpKnown(direct.arg.op) THEN direct.out = Raise("ValueError")
                ELSE IF result.exc # "none" THEN direct.out = result
                ELSE direct.out = Ret(result.val # direct.arg.negate)

\* The conditions of the rule that do not evaluate to True on the context.
NotTrue(conds, context) ==
    {k \in 1..Len(conds) : evaluate(conds[k], context) # Ret(TRUE)}

\* C13: evaluate_rule evaluates every condition: the failure list has one
\* description for each condition that is false or raises, in the order
\* of the conditions; passed is true exactly when the list is empty, so a
\* rule without conditions passes; an exception of a condition becomes a
\* description and does not reach the caller.
C13_EvaluateRuleCollectsAll ==
    (direct.fn = "evaluate_rule" /\ direct.pc = "returned") =>
        LET conds == direct.arg.conditions
            bad   == NotTrue(conds, direct.context)
            out   == direct.out
        IN  /\ DOMAIN out = {"ok", "failed"}
            /\ Len(out.failed) = Cardinality(bad)
            /\ \A k \in bad :
                  LET pos == Cardinality({x \in bad : x <= k})
                      r   == evaluate(conds[k], direct.context)
                  IN  out.failed[pos] =
                        IF r.exc # "none"
                        THEN [kind |-> "error", exc |-> r.exc]
                        ELSE [kind |-> "failed", field |-> conds[k].field,
                              op |-> conds[k].op, value |-> conds[k].value]
            /\ out.ok <=> (out.failed = <<>>)
            /\ conds = <<>> => out.ok

\* A rule of two conditions, the first with an unknown operator and the
\* second false: both are described, the error first.
C13_Witness ==
    /\ direct.fn = "evaluate_rule"
    /\ direct.pc = "returned"
    /\ Len(direct.arg.conditions) = 2
    /\ ~direct.out.ok
    /\ Len(direct.out.failed) = 2
    /\ direct.out.failed[1].kind = "error"
    /\ direct.out.failed[2].kind = "failed"

\* A rule without conditions has passed.
C13_WitnessNoConditions ==
    /\ direct.fn = "evaluate_rule"
    /\ direct.pc = "returned"
    /\ direct.arg.conditions = <<>>
    /\ direct.out = [ok |-> TRUE, failed |-> <<>>]

\* C14: when an action of a rule fails, the entry run_rule_engine returns
\* for the rule has status "error" and an error field with the message of
\* the exception.
C14_ErrorEntryCarriesMessage ==
    \A p \in Threads :
        \A k \in 1..Len(th[p].results) :
            th[p].results[k].status = "error" =>
                /\ "error" \in DOMAIN th[p].results[k]
                /\ th[p].results[k].error # "None"

\* What the code does keep of the failure: the execution record of the
\* rule has result "error" and the message.
C14_RecordCarriesMessage ==
    \A x \in 1..Len(executions) :
        executions[x].result = "error" <=> executions[x].error # "None"

\* The result a successful action of this type leaves.
ResultKeys(action) ==
    CASE action.type = "log_message" -> {"logged"}
      [] action.type = "send_notify" -> {"channel", "message"}
      [] action.type = "set_state" -> {"entity_id", "state"}
      [] action.type = "call_service" -> {"service", "status"}
      [] action.type = "delay" -> {"delayed"}
      [] action.type = "run_scene" -> {"scene"}

\* C15 as stated: when action i fails, the list of action results in the
\* rule's entry holds the results up to and including the failure point
\* (one for each of the actions 1..i), and nothing for an action after i.
C15_ResultsIncludeFailurePoint ==
    \A p \in Threads :
        LET t == th[p]
        IN  \A k \in 1..Len(t.results) :
                t.results[k].status = "error" =>
                    Len(t.results[k].actions) = Len(Executed(t, t.rules[k].name))

\* C15, amended: when action i fails, the list holds the results of the
\* actions 1..i-1 in declared order (the failed action leaves none) and
\* nothing for an action after i; when no action fails it holds one result
\* for each declared action, in declared order.
C15_ResultsOfPass ==
    \A p \in Threads :
        LET t == th[p]
        IN  /\ \A k \in 1..Len(t.results) :
                  LET rule == t.rules[k]
                      e    == t.results[k]
                      m    == Len(Executed(t, rule.name))
                  IN  /\ e.status = "error" => Len(e.actions) = m - 1
                      /\ e.status = "ok" => Len(e.actions) = Len(rule.actions)
                      /\ e.status \in {"ok", "error"} =>
                            \A j \in 1..Len(e.actions) :
                                DOMAIN e.actions[j] = ResultKeys(rule.actions[j])
            /\ t.pc \in {"act", "record", "increment"} =>
                  \A j \in 1..Len(t.action_results) :
                      DOMAIN t.action_results[j] = ResultKeys(t.rules[t.i].actions[j])

C15_ResultsStep ==
    \A p \in Threads :
        /\ (th[p].pc = "act" /\ th'[p] # th[p]) =>
              IF Fails(th[p].rules[th[p].i].actions[th[p].j], service_handlers)
              THEN th'[p].action_results = th[p].action_results
              ELSE /\ Len(th'[p].action_results) = th[p].j
                   /\ SubSeq(th'[p].action_results, 1, th[p].j - 1)
                         = th[p].action_results
        /\ (th[p].pc = "record" /\ th'[p] # th[p]) =>
              th'[p].action_results = th[p].action_results
        /\ (th[p].pc = "increment" /\ th'[p] # th[p]) =>
              th'[p].results[Len(th'[p].results)].actions = th[p].action_results

C15_ResultsBeforeFailure == []C15_ResultsOfPass /\ [][C15_ResultsStep]_vars

\* The second of three actions failed: the entry holds the result of the
\* first, the message that was logged.
C15_Witness ==
    \E p \in Threads :
        /\ th[p].pc = "done"
        /\ \E k \in 1..Len(th[p].results) :
              /\ Len(th[p].rules[k].actions) = 3
              /\ th[p].results[k].status = "error"
              /\ th[p].results[k].actions = <<[logged |-> PyStr(sHot)]>>

\* C16: a CALL_SERVICE action whose target has no handler does not fail:
\* its result is the "no_handler" status, the rule's next action is
\* executed, and after the last action the status is "ok"; an action of a
\* type execute_action does not know fails: no further action of the rule
\* is executed and the status is "error".
C16_NoHandlerStep ==
    \A p \in Threads :
        (th[p].pc = "act" /\ th'[p] # th[p]) =>
            LET t      == th[p]
                n      == Len(t.rules[t.i].actions)
                action == t.rules[t.i].actions[t.j]
            IN  /\ (action.type = "call_service"
                      /\ action.target \notin DOMAIN service_handlers) =>
                      /\ th'[p].action_results =
                            Append(t.action_results,
                                   [service |-> action.target, status |-> "no_handler"])
                      /\ th'[p].error_msg = "None"
                      /\ IF t.j < n
                         THEN th'[p].pc = "act" /\ th'[p].j = t.j + 1
                         ELSE th'[p].pc = "record" /\ th'[p].status = "ok"
                /\ action.type \notin ActionTypes =>
                      /\ th'[p].pc = "record"
                      /\ th'[p].status = "error"
                      /\ th'[p].error_msg = "Unknown action type"
                      /\ th'[p].action_results = t.action_results

C16_NoHandlerOutcome ==
    \A p \in Threads :
        LET t == th[p]
        IN  \A k \in 1..Len(t.results) :
                LET rule == t.rules[k]
                    e    == t.results[k]
                IN  /\ (e.status \in {"ok", "error"}
                          /\ \E j \in 1..Len(rule.actions) : AlwaysFails(rule.actions[j])) =>
                          /\ e.status = "error"
                          /\ \A j \in 1..Len(rule.actions) :
                                AlwaysFails(rule.actions[j]) =>
                                    /\ Len(e.actions) < j
                                    /\ Len(Executed(t, rule.name)) <= j
                    /\ e.status = "error" =>
                          \A j \in 1..Len(e.actions) : e.actions[j] # <<>>
                    /\ (e.status = "ok"
                          /\ \E j \in 1..Len(e.actions) :
                                "status" \in DOMAIN e.actions[j]
                                    /\ e.actions[j].status = "no_handler") =>
                          Len(Executed(t, rule.name)) = Len(rule.actions)

C16_NoHandlerNonFatal == []C16_NoHandlerOutcome /\ [][C16_NoHandlerStep]_vars

\* temp_alert ran with no handler for "svc": the log message, the
\* "no_handler" status and the state are its three results, status "ok".
C16_Witness ==
    \E p \in Threads :
        /\ th[p].pc = "done"
        /\ \E k \in 1..Len(th[p].results) :
              /\ th[p].results[k].status = "ok"
              /\ Len(th[p].results[k].actions) = 3
              /\ th[p].results[k].actions[2] = [service |-> "svc", status |-> "no_handler"]
              /\ DOMAIN th[p].results[k].actions[3] = {"entity_id", "state"}

\* An action of unknown type has failed its rule, the action after it was
\* not executed.
C16_WitnessUnknownType ==
    \E p \in Threads :
        /\ th[p].pc = "done"
        /\ \E k \in 1..Len(th[p].results) :
              /\ AlwaysFails(th[p].rules[k].actions[1])
              /\ Len(th[p].rules[k].actions) = 2
              /\ th[p].results[k].status = "error"
              /\ Executed(th[p], th[p].rules[k].name) = <<1>>

\* A thread counts an execution in this step.
Counts(name) ==
    \E p \in Threads :
        /\ th[p].pc = "increment"
        /\ th'[p] # th[p]
        /\ th[p].rules[th[p].i].name = name

\* C17: the trigger count of a rule is monotonic and non-negative: over
\* add_rule (also of a name that is in the store), enable_rule,
\* disable_rule and run_rule_engine, the stored trigger_count of a name
\* that stays in the store never decreases, is never negative, and
\* changes only when an execution is counted.
C17_CountStep ==
    \A name \in RuleNames :
        (RowsNamed(rules, name) # {} /\ RowsNamed(rules', name) # {}) =>
            \A r \in RowsOf(rules, name) : \A r2 \in RowsOf(rules', name) :
                /\ r2.trigger_count >= r.trigger_count
                /\ r2.trigger_count # r.trigger_count => Counts(name)

C17_NonNegative == \A k \in 1..Len(rules) : rules[k].trigger_count >= 0

C17_TriggerCountMonotonic == []C17_NonNegative /\ [][C17_CountStep]_vars

\* C18: the execution log is append-only: every step (of a pass, of
\* add_rule replacing a rule, of enable_rule, disable_rule, delete_rule)
\* leaves the log as it was or appends records at its end; no record is
\* removed or changed.
C18_AppendStep ==
    /\ Len(executions') >= Len(executions)
    /\ SubSeq(executions', 1, Len(executions)) = executions

C18_AppendOnly == [][C18_AppendStep]_vars

\* The rule was deleted, its execution record is still in the log.
C18_Witness ==
    /\ last_call.op = "delete_rule"
    /\ RowsNamed(rules, last_call.name) = {}
    /\ Len(RecordsOf(executions, last_call.name)) >= 1

\* The rule was added again, the record of its earlier execution is still
\* in the log.
C18_WitnessReplaced ==
    /\ last_call.op = "add_rule"
    /\ last_call.rule.description = "v2"
    /\ \E x \in 1..Len(executions) :
          executions[x].rule_name = last_call.name
              /\ executions[x].triggered_by = "sensor"
              /\ executions[x].result = "ok"

\* C19: a DELAY action, or a slow or hung service handler, in one
\* invocation does not block a concurrent one: the thread that sleeps or
\* is inside a handler does not hold the lock, so another thread that
\* needs the lock can take it unless a third thread is writing; the wait
\* does hold back its own rule: until it ends, the thread executes no
\* further action of the rule and does not record the execution.
C19_WaitsWithoutLock ==
    \A p \in Threads :
        th[p].wait =>
            LET t    == th[p]
                name == t.rules[t.i].name
            IN  /\ ~t.lock
                /\ \A q \in Threads \ {p} :
                      (AtLocked(th[q]) /\ \A x \in Threads \ {p} : ~th[x].lock) =>
                          ENABLED Acquire(q)
                /\ t.pc = "act"
                /\ Len(Executed(t, name)) = t.j - 1
                /\ CallsOf(t, "_record_execution", name) = {}
                /\ CallsOf(t, "_increment_trigger", name) = {}
                /\ Len(t.results) = t.i - 1

C19_WaitStep ==
    \A p \in Threads :
        (th[p].wait /\ th'[p] # th[p]) =>
            /\ ~th'[p].wait
            /\ th'[p].calls = Append(th[p].calls,
                  Call("execute_action", th[p].rules[th[p].i].name, th[p].j))
            /\ executions' = executions
            /\ rules' = rules

C19_DelayDoesNotBlockOthers == []C19_WaitsWithoutLock /\ [][C19_WaitStep]_vars

\* Thread 1 is still in the delay of motion_on; thread 2 has made its
\* call after that delay began, has executed and recorded temp_alert,
\* counted it, and has its results.
C19_Witness ==
    /\ th[1].wait
    /\ CurrentAction(th[1]).type = "delay"
    /\ th[2].pc = "done"
    /\ ncalls > th[1].wait_from
    /\ \E k \in 1..Len(th[2].results) :
          /\ th[2].results[k].rule = "temp_alert"
          /\ th[2].results[k].status = "ok"
    /\ Len(RecordsOf(executions, "temp_alert")) = 1
    /\ \E r \in RowsOf(rules, "temp_alert") : r.trigger_count = 1
    /\ RecordsOf(executions, "motion_on") = <<>>

\* The same while thread 1 is inside a service handler.
C19_WitnessHandler ==
    /\ th[1].wait
    /\ CurrentAction(th[1]).type = "call_service"
    /\ th[2].pc = "done"
    /\ ncalls > th[1].wait_from
    /\ \E k \in 1..Len(th[2].results) : th[2].results[k].status = "ok"

\* C20: referential integrity of the execution log, as FOREIGN KEY
\* (rule_name) REFERENCES rules(name) declares it: in every reachable
\* state every execution record bears the name of a rule that is in the
\* rule store.
C20_RecordsNameStoredRules ==
    \A x \in 1..Len(executions) : RowsNamed(rules, executions[x].rule_name) # {}

\* No call of run_rule_engine is in progress.
NoRunInProgress == \A p \in Threads : th[p].pc \in {"idle", "done"}

\* The number of add_rule calls made for the name: add_rule writes one
\* "Rule added" line to the logs table per call, and no line is ever removed.
Adds(name) ==
    Len(SelectSeq(logs, LAMBDA l : l.message = <<"Rule added", name>>))

\* The row is of a rule that was added once, with trigger_count 0.
AddedOnce(row) ==
    /\ Adds(row.name) = 1
    /\ row.definition.trigger_count = 0

\* C21: counter and history agree whenever no run is in progress: while
\* two threads call run_rule_engine and rules are enabled, disabled,
\* deleted and added in any interleaving, every rule that was added once
\* with trigger_count 0 and is in the store has a trigger_count equal to
\* the number of execution records bearing its name.
C21_CounterMatchesHistory ==
    NoRunInProgress =>
        \A k \in 1..Len(rules) :
            AddedOnce(rules[k]) =>
                rules[k].trigger_count =
                    Len(RecordsOf(executions, rules[k].name))

\* Both threads have executed a rule that was added once, and the rule was
\* disabled while they ran or afterwards: two records, a count of two.
C21_Witness ==
    /\ NoRunInProgress
    /\ \A p \in Threads : th[p].pc = "done"
    /\ last_call.op = "disable_rule"
    /\ \E k \in 1..Len(rules) :
          /\ AddedOnce(rules[k])
          /\ rules[k].name = last_call.name
          /\ rules[k].trigger_count = 2
          /\ Len(RecordsOf(executions, rules[k].name)) = 2
\* The event name a fire_event context carries, and the sensor id a
\* process_sensor_update context carries.
FiredName(context) == context.v[kEvent].v[kName]

UpdatedSensor(context) == context.v[kEvent].v[kSensorId]

\* The rows that are enabled and carry the trigger tag.
EnabledOfType(tbl, type) ==
    {k \in 1..Len(tbl) :
        tbl[k].enabled = 1 /\ tbl[k].definition.trigger.type = type}

\* C22: trigger configuration is never consulted when selecting rules:
\* fire_event(name, data) loads every enabled EVENT rule and
\* process_sensor_update(sensor_id, ...) every enabled SENSOR rule, whether
\* the event_name or sensor_id of its trigger config equals the one given
\* or not; and a loaded rule is skipped exactly when one of its conditions
\* does not pass on the context, otherwise its actions are executed.
C22_SelectStep ==
    \A p \in Threads :
        (th[p].pc = "idle" /\ th'[p] # th[p]) =>
            /\ th'[p].entry = "fire_event" =>
                  \A k \in EnabledOfType(rules, "event") :
                      /\ Get(rules[k].definition.trigger.config, "event_name", None)
                             # FiredName(th'[p].context) =>
                            rules[k].name \in Names(th'[p].rules)
                      /\ Get(rules[k].definition.trigger.config, "event_name", None)
                             = FiredName(th'[p].context) =>
                            rules[k].name \in Names(th'[p].rules)
            /\ th'[p].entry = "process_sensor_update" =>
                  \A k \in EnabledOfType(rules, "sensor") :
                      /\ Get(rules[k].definition.trigger.config, "sensor_id", None)
                             # UpdatedSensor(th'[p].context) =>
                            rules[k].name \in Names(th'[p].rules)
                      /\ Get(rules[k].definition.trigger.config, "sensor_id", None)
                             = UpdatedSensor(th'[p].context) =>
                            rules[k].name \in Names(th'[p].rules)

C22_OnlyConditionsRestrict ==
    \A p \in Threads :
        LET t == th[p]
        IN  t.entry \in {"fire_event", "process_sensor_update"} =>
                /\ t.pc = "done" => Len(t.results) = Len(t.rules)
                /\ Len(t.results) <= Len(t.rules)
                /\ \A k \in 1..Len(t.results) :
                      /\ t.results[k].rule = t.rules[k].name
                      /\ t.results[k].status = "skipped"
                             <=> HasFailing(t.rules[k], t.context)
                      /\ t.results[k].status # "skipped" =>
                             CallsOf(t, "execute_action", t.rules[k].name) # {}
                                 \/ t.rules[k].actions = <<>>

C22_TriggerConfigNotConsulted ==
    []C22_OnlyConditionsRestrict /\ [][C22_SelectStep]_vars

\* fire_event("on") has executed the rule whose trigger config declares
\* event_name "motion".
C22_Witness ==
    \E p \in Threads :
        /\ th[p].pc = "done"
        /\ th[p].entry = "fire_event"
        /\ FiredName(th[p].context) = PyStr(sOn)
        /\ \E k \in 1..Len(th[p].results) :
              /\ th[p].rules[k].trigger.config = [event_name |-> PyStr(sMotion)]
              /\ th[p].results[k].status = "ok"
              /\ Executed(th[p], th[p].rules[k].name) = <<1>>

\* process_sensor_update("t2", 35) has evaluated the rule whose trigger
\* config declares sensor_id "t1"; the rule's condition on sensor.t1.value
\* kept it from running.
C22_WitnessSensor ==
    \E p \in Threads :
        /\ th[p].pc = "done"
        /\ th[p].entry = "process_sensor_update"
        /\ UpdatedSensor(th[p].context) = PyStr(kT2)
        /\ \E k \in 1..Len(th[p].results) :
              /\ Get(th[p].rules[k].trigger.config, "sensor_id", None) = PyStr(kT1)
              /\ CallsOf(th[p], "evaluate_rule", th[p].rules[k].name) # {}
              /\ th[p].results[k].status = "skipped"
====
